---- MODULE Spec2Model ----
(***************************************************************************)
(* The screen-share source selection core of ms-wrappers.                  *)
(*                                                                         *)
(* One StreamSelector instance (src/src/main/screenShare.js creates one    *)
(* and calls show() on it for every request), the two global ipcMain       *)
(* handlers that route picker messages to it, the picker windows it        *)
(* creates and the callbacks handed to show().                             *)
(*                                                                         *)
(* src/src/display-capture/index.js holds two revisions of the selector,   *)
(* lines 1-193 and lines 194-390.  The variable revision says which one    *)
(* runs; it is chosen in Init and never changes.  Where the revisions      *)
(* differ there is one definition per revision (suffix R1 / R2).           *)
(*                                                                         *)
(* Events are the tasks of the single-threaded event loop: a show() call   *)
(* up to its await, the resumption of a show() after its await, a window   *)
(* event, an IPC message, a cancel() call.  Each is one action.            *)
(*                                                                         *)
(* desktopCapturer.getSources settles the promises of overlapping calls    *)
(* in call order, so suspended show() calls resume oldest first.           *)
(*                                                                         *)
(* Seven specifications share the variables, each leaves the variables of  *)
(* the others as Init sets them:                                           *)
(*   Spec        the stream selector in the main process;                  *)
(*   SpecIpc     the IPC boundary of the main process: the validator and   *)
(*               its allowlist (src/src/source-selector/preload.js lines   *)
(*               9-101), the rate limiter and the wrapped ipcMain.on and   *)
(*               ipcMain.handle (src/unnamed/part_006 lines 73-144), and   *)
(*               send and invoke of the main window's preload script;      *)
(*   SpecPicker  the script of one picker page                             *)
(*               (src/src/display-capture/screenShare.js) and the events   *)
(*               of that page, up to its unload;                           *)
(*   SpecRate    the rate limiter of SpecIpc under bursts of messages      *)
(*               that arrive at the same Date.now();                       *)
(*   SpecPair    two StreamSelector objects in one process, as the         *)
(*               trigger handler of src/src/main.js lines 540-569          *)
(*               creates them, with one show() call each;                  *)
(*   SpecBridge  createIpcBridge of src/src/utils/ipc-bridge.js and the    *)
(*               methods of the object it exposes;                         *)
(*   SpecHost    the screen-share handlers of src/src/main/screenShare.js  *)
(*               around global.selectedScreenShareSource, the main window  *)
(*               alive; the selector is their environment there and        *)
(*               invokes the callbacks with any value.                     *)
(*                                                                         *)
(* The wrappers of src/src/main.js lines 54-72 (no rate limiter) and the   *)
(* picker script of src/unnamed/part_007 (no tabs) are other revisions of  *)
(* the same code and are not modelled.                                     *)
(*                                                                         *)
(* A wrapped handler is an operator from the boundary and a message to an  *)
(* Outcome: the boundary after the call, whether the registered handler    *)
(* ran, what the sender gets back and the payload object after the call.   *)
(***************************************************************************)
EXTENDS Integers, Sequences, FiniteSets, TLC

\* ---------------------------------------------------------------- bounds
\* number of show() calls in a behaviour; call k supplies callback k
MaxShows == 2

\* ids the platform may report, and one id no catalog ever contains
SourceIds == {"screen:0", "window:1"}
TamperedId == "screen:99"
PayloadIds == SourceIds \cup {TamperedId}

Calls == 1..MaxShows
\* the window created by the resumption of show() call k is window k
Windows == 1..MaxShows

\* null for callbacks and windows
NoCallback == 0
NoWindow == 0

\* -------------------------------------------------- values of a callback
NullValue == [kind |-> "null", id |-> "", fetch |-> 0]
\* the object received over IPC from a renderer
Payload(id) == [kind |-> "payload", id |-> id, fetch |-> 0]
\* the DesktopCapturerSource with this id returned by fetch f
CaptureSource(id, f) == [kind |-> "source", id |-> id, fetch |-> f]

\* a BrowserWindow that was never constructed
NoWin == [state |-> "none", closing |-> FALSE, ready |-> FALSE, recv |-> <<>>]
\* new BrowserWindow({show: false, ...})
NewWin == [state |-> "hidden", closing |-> FALSE, ready |-> FALSE, recv |-> <<>>]

VARIABLES
    revision,             \* 1: index.js lines 1-193, 2: lines 194-390
    activeStreamSelector, \* TRUE: the instance, FALSE: null
    pickerWindow,         \* this.pickerWindow: a window id or NoWindow
    currentCallback,      \* this.currentCallback: a call id or NoCallback
    sources,              \* this.sources: [fetch, ids]
    shows,                \* number of show() calls made so far
    fetch,                \* per show() call: where the call is
    catalogOf,            \* per show() call: ids its fetch returned
    win,                  \* per window: the BrowserWindow
    calls,                \* per callback: the values it was invoked with
    uncaught,             \* an exception left an event handler
    screenShareErrors,    \* 'screen-share-error' messages sent to the parent
    allowedChannels,      \* the Set exported by the IPC validator
    now,                  \* Date.now() in the main process, in ms
    requests,             \* IPCRateLimiter.requests: key -> {count, resetTime}
    arrived,              \* per key: messages that arrived in its current window
    handled,              \* channels whose registered handler has been executed
    accepted,             \* log of bursts: key, Date.now() and messages accepted
    picker,               \* the ScreenSourceSelector of one picker page
    selectors,            \* two StreamSelector objects and activeStreamSelector
    bridge,               \* the api object built by createIpcBridge and its effects
    host                  \* the screen-share state of src/src/main/screenShare.js

\* the stream selector, its windows and its callbacks
selectorVars == <<revision, activeStreamSelector, pickerWindow, currentCallback,
                  sources, shows, fetch, catalogOf, win, calls, uncaught,
                  screenShareErrors>>

\* the main-process IPC boundary: allowlist, rate limiter, wrapped handlers
boundaryVars == <<allowedChannels, now, requests, arrived, handled, accepted>>

\* the renderer script of the picker page
rendererVars == <<picker>>

\* two selector objects in one process
pairVars == <<selectors>>

\* the bridge a preload script creates
bridgeVars == <<bridge>>

\* the main-process handlers of the screen-share channels
hostVars == <<host>>

vars == <<revision, activeStreamSelector, pickerWindow, currentCallback,
          sources, shows, fetch, catalogOf, win, calls, uncaught,
          screenShareErrors, allowedChannels, now, requests, arrived, handled,
          accepted, picker, selectors, bridge, host>>

\* the part of the state handleSelection reads and writes
State ==
    [activeStreamSelector |-> activeStreamSelector,
     pickerWindow |-> pickerWindow,
     currentCallback |-> currentCallback,
     sources |-> sources,
     win |-> win,
     calls |-> calls]

Commit(s) ==
    /\ activeStreamSelector' = s.activeStreamSelector
    /\ pickerWindow' = s.pickerWindow
    /\ currentCallback' = s.currentCallback
    /\ sources' = s.sources
    /\ win' = s.win
    /\ calls' = s.calls

\* BrowserWindow.isDestroyed()
isDestroyed(s, w) == s.win[w].state = "destroyed"

\* StreamSelector.isOpen()
isOpen(s) == s.pickerWindow # NoWindow /\ ~isDestroyed(s, s.pickerWindow)

\* the lookup in this.sources left out: the received object goes through
MapToOriginalForwardsPayload(s, selectedSource) ==
    IF selectedSource.kind = "null" THEN NullValue ELSE selectedSource

\* this.sources.find(source => source.id === selectedSource.id), or the
\* argument itself when nothing is found
MapToOriginal(s, selectedSource) ==
    IF selectedSource.kind = "null" THEN NullValue
    ELSE IF selectedSource.id \in s.sources.ids
         THEN CaptureSource(selectedSource.id, s.sources.fetch)
         ELSE selectedSource

\* handleSelection without this.currentCallback = null
handleSelectionKeepsCallback(s, selectedSource) ==
    IF s.currentCallback # NoCallback
    THEN LET callback == s.currentCallback
             closeIt == s.pickerWindow # NoWindow /\ ~isDestroyed(s, s.pickerWindow)
         IN [s EXCEPT
               !.activeStreamSelector = FALSE,
               !.win = IF closeIt
                       THEN [s.win EXCEPT ![s.pickerWindow].closing = TRUE]
                       ELSE s.win,
               !.calls = [s.calls EXCEPT
                            ![callback] = Append(@, MapToOriginal(s, selectedSource))]]
    ELSE s

\* StreamSelector.handleSelection(selectedSource)
handleSelection(s, selectedSource) ==
    IF s.currentCallback # NoCallback
    THEN LET callback == s.currentCallback
             closeIt == s.pickerWindow # NoWindow /\ ~isDestroyed(s, s.pickerWindow)
         IN [s EXCEPT
               !.currentCallback = NoCallback,
               !.activeStreamSelector = FALSE,
               !.win = IF closeIt
                       THEN [s.win EXCEPT ![s.pickerWindow].closing = TRUE]
                       ELSE s.win,
               !.calls = [s.calls EXCEPT
                            ![callback] = Append(@, MapToOriginal(s, selectedSource))]]
    ELSE s

\* StreamSelector.cancel()
cancel(s) == handleSelection(s, NullValue)

\* ------------------------------------------------------- the IPC boundary
\* number of such steps in a behaviour
MaxTicks == 3
\* messages of one sender on one channel that arrive within one window
MaxArrivals == 101
\* only one channel is flooded at a time: while a channel has had more than
\* this many messages in its window, no other channel goes beyond it
MaxQuietArrivals == 2

\* the channels of new Set([...]) in the validator
AllowedChannelSet ==
    {"config-file-changed", "get-config", "get-system-idle-state",
     "get-app-version", "get-zoom-level", "save-zoom-level",
     "desktop-capturer-get-sources", "choose-desktop-media",
     "cancel-desktop-media", "trigger-screen-share",
     "screen-sharing-started", "screen-sharing-stopped",
     "screen-sharing-source-selected", "get-screen-sharing-status",
     "get-screen-share-stream", "get-screen-share-screen",
     "resize-preview-window", "minimize-preview-window",
     "close-preview-window", "stop-screen-sharing-from-thumbnail",
     "source-selected", "selection-cancelled", "play-notification-sound",
     "show-notification", "user-status-changed", "set-badge-count",
     "tray-update", "incoming-call-created", "incoming-call-ended",
     "incoming-call-action", "call-connected", "call-disconnected",
     "submitForm", "get-custom-bg-list", "offline-retry", "stop-sharing"}

\* channels on which messages reach the main process: one the validator
\* lists, and the legacy picker channel, which it does not list
IpcChannels == {"source-selected", "selected-source"}

\* event.sender.id of the web contents that sends
Senders == {1}

\* the own properties validateIpcChannel deletes
DangerousProps == {"__proto__", "constructor", "prototype"}

\* args[0] of a message: null (or no argument), or an object with these
\* own properties
NullPayload == [isObject |-> FALSE, props |-> {}]
ObjectPayload(props) == [isObject |-> TRUE, props |-> props]
IpcPayloads ==
    {NullPayload,
     ObjectPayload({"id", "name"}),
     ObjectPayload({"__proto__", "constructor", "prototype", "id"})}

\* validateIpcChannel that lets a message without payload through
validateIpcChannelTrustsEmpty(allowed, channel, payload) ==
    IF channel \notin allowed /\ payload.isObject
    THEN [ok |-> FALSE, payload |-> payload, allowedChannels |-> allowed]
    ELSE [ok |-> TRUE,
          payload |-> IF payload.isObject
                      THEN [payload EXCEPT !.props = @ \ DangerousProps]
                      ELSE payload,
          allowedChannels |-> allowed]

\* validateIpcChannel that learns the channels it rejects
validateIpcChannelLearns(allowed, channel, payload) ==
    IF channel \notin allowed
    THEN [ok |-> FALSE, payload |-> payload,
          allowedChannels |-> allowed \cup {channel}]
    ELSE [ok |-> TRUE,
          payload |-> IF payload.isObject
                      THEN [payload EXCEPT !.props = @ \ DangerousProps]
                      ELSE payload,
          allowedChannels |-> allowed]

\* validateIpcChannel(channel, payload): the value returned, the payload
\* object after the call and the Set after the call
validateIpcChannel(allowed, channel, payload) ==
    IF channel \notin allowed
    THEN [ok |-> FALSE, payload |-> payload, allowedChannels |-> allowed]
    ELSE [ok |-> TRUE,
          payload |-> IF payload.isObject
                      THEN [payload EXCEPT !.props = @ \ DangerousProps]
                      ELSE payload,
          allowedChannels |-> allowed]

\* IPCRateLimiter: this.windowLimit and this.windowMs
windowLimit == 100
windowMs == 60000

\* Date.now() is observed at multiples of half a window, so that a message
\* can arrive exactly at a reset time and half a window after it
TickMs == windowMs \div 2

\* the Map key `${senderId}-${channel}`
Key(senderId, channel) == <<senderId, channel>>
Keys == Senders \X IpcChannels

\* Map.set(key, record)
MapSet(map, key, record) ==
    [k \in DOMAIN map \cup {key} |-> IF k = key THEN record ELSE map[k]]

\* isAllowed that counts the message it rejects
isAllowedCountsRejected(reqs, t, senderId, channel) ==
    LET key == Key(senderId, channel)
    IN IF key \notin DOMAIN reqs
       THEN [ok |-> TRUE,
             requests |-> MapSet(reqs, key, [count |-> 1, resetTime |-> t + windowMs])]
       ELSE IF t > reqs[key].resetTime
       THEN [ok |-> TRUE,
             requests |-> MapSet(reqs, key, [count |-> 1, resetTime |-> t + windowMs])]
       ELSE [ok |-> reqs[key].count < windowLimit,
             requests |-> MapSet(reqs, key, [reqs[key] EXCEPT !.count = @ + 1])]

\* IPCRateLimiter.isAllowed(senderId, channel) at Date.now() = t: the value
\* returned and this.requests after the call
isAllowed(reqs, t, senderId, channel) ==
    LET key == Key(senderId, channel)
    IN IF key \notin DOMAIN reqs
       THEN [ok |-> TRUE,
             requests |-> MapSet(reqs, key, [count |-> 1, resetTime |-> t + windowMs])]
       ELSE IF t > reqs[key].resetTime
       THEN [ok |-> TRUE,
             requests |-> MapSet(reqs, key, [count |-> 1, resetTime |-> t + windowMs])]
       ELSE IF reqs[key].count >= windowLimit
       THEN [ok |-> FALSE, requests |-> reqs]
       ELSE [ok |-> TRUE,
             requests |-> MapSet(reqs, key, [reqs[key] EXCEPT !.count = @ + 1])]

\* bursts of messages in a behaviour
MaxBursts == 4

\* messages of one sender on one channel that arrive at one Date.now()
BurstSizes == {1, windowLimit}

\* n calls of isAllowed(senderId, channel) one after the other at
\* Date.now() = t, the first half of them and then the rest: how many
\* returned true, and this.requests after the last
RECURSIVE isAllowedTimes(_, _, _, _, _)
isAllowedTimes(reqs, t, senderId, channel, n) ==
    IF n = 0 THEN [accepted |-> 0, requests |-> reqs]
    ELSE IF n = 1
    THEN LET call == isAllowed(reqs, t, senderId, channel)
         IN [accepted |-> IF call.ok THEN 1 ELSE 0, requests |-> call.requests]
    ELSE LET earlier == isAllowedTimes(reqs, t, senderId, channel, n \div 2)
             later == isAllowedTimes(earlier.requests, t, senderId, channel,
                                     n - (n \div 2))
         IN [accepted |-> earlier.accepted + later.accepted,
             requests |-> later.requests]

\* the part of the state the wrapped handlers read and write
Boundary ==
    [allowedChannels |-> allowedChannels,
     now |-> now,
     requests |-> requests,
     handled |-> handled]

CommitBoundary(b) ==
    /\ allowedChannels' = b.allowedChannels
    /\ requests' = b.requests
    /\ handled' = b.handled
    /\ now' = b.now

\* the result of a wrapped handler: the boundary after the call, whether
\* the registered handler was executed, what the sender gets back and the
\* payload object as the call leaves it
Outcome(b, ran, reply, payload) ==
    [boundary |-> b, ran |-> ran, reply |-> reply, payload |-> payload]

\* the ipcMain.on wrapper with the allowlist test ahead of the rate limiter
ipcMainOnValidatesFirst(b, senderId, channel, payload) ==
    LET v == validateIpcChannel(b.allowedChannels, channel, payload)
        b1 == [b EXCEPT !.allowedChannels = v.allowedChannels]
    IN IF ~v.ok
       THEN Outcome(b1, FALSE, "dropped", v.payload)
       ELSE LET rate == isAllowed(b1.requests, b1.now, senderId, channel)
                b2 == [b1 EXCEPT !.requests = rate.requests]
            IN IF ~rate.ok
               THEN Outcome(b2, FALSE, "dropped", v.payload)
               ELSE Outcome([b2 EXCEPT !.handled = @ \cup {channel}],
                            TRUE, "handled", v.payload)

\* the listener ipcMain.on(channel, handler) registers, called with a
\* message of senderId on channel
ipcMainOn(b, senderId, channel, payload) ==
    LET rate == isAllowed(b.requests, b.now, senderId, channel)
        b1 == [b EXCEPT !.requests = rate.requests]
    IN IF ~rate.ok
       THEN Outcome(b1, FALSE, "dropped", payload)
       ELSE LET v == validateIpcChannel(b1.allowedChannels, channel, payload)
                b2 == [b1 EXCEPT !.allowedChannels = v.allowedChannels]
            IN IF ~v.ok
               THEN Outcome(b2, FALSE, "dropped", v.payload)
               ELSE Outcome([b2 EXCEPT !.handled = @ \cup {channel}],
                            TRUE, "handled", v.payload)

\* the listener ipcMain.handle(channel, handler) registers, called with a
\* request of senderId on channel
ipcMainHandle(b, senderId, channel, payload) ==
    LET rate == isAllowed(b.requests, b.now, senderId, channel)
        b1 == [b EXCEPT !.requests = rate.requests]
    IN IF ~rate.ok
       THEN Outcome(b1, FALSE, "Rate limit exceeded", payload)
       ELSE LET v == validateIpcChannel(b1.allowedChannels, channel, payload)
                b2 == [b1 EXCEPT !.allowedChannels = v.allowedChannels]
            IN IF ~v.ok
               THEN Outcome(b2, FALSE, "Unauthorized IPC channel", v.payload)
               ELSE Outcome([b2 EXCEPT !.handled = @ \cup {channel}],
                            TRUE, "handled", v.payload)

\* -------------------------------------------------------- the picker page
\* messages the picker page sends in a behaviour
MaxSent == 3
\* sources-available messages the picker page handles in a behaviour
MaxCatalogs == 2

\* this.selectedSource = null
NoSource == ""

\* the confirm button of index.html carries the disabled attribute
ShareBtnDisabledInHtml == TRUE

\* the properties handleShare copies into the object it sends
SerializableFields == {"id", "name", "display_id", "appIcon"}

\* ipcRenderer.send('source-selected', source): fields are the properties
\* of the object sent
SourceSelectedMessage(id, fields) ==
    [channel |-> "source-selected", id |-> id, fields |-> fields]

\* ipcRenderer.send('selection-cancelled')
SelectionCancelledMessage ==
    [channel |-> "selection-cancelled", id |-> NoSource, fields |-> {}]

\* source.id.startsWith('screen:')
IsScreen(id) == id \in {"screen:0", "screen:1", "screen:99"}

\* ids of the catalogs a picker page is sent: two screens and a window
PickerSourceIds == SourceIds \cup {"screen:1"}

\* the page as index.html describes it, before its script has run
PickerPage ==
    [phase |-> "loading",
     api |-> FALSE,
     listening |-> FALSE,
     sources |-> {},
     activeTab |-> "screens",
     selectedSource |-> NoSource,
     isSubmitting |-> FALSE,
     shareBtnDisabled |-> ShareBtnDisabledInHtml,
     grid |-> {},
     gridShown |-> FALSE,
     selectedEls |-> {},
     sent |-> <<>>,
     closeRequested |-> FALSE,
     catalogs |-> 0]

\* new ScreenSourceSelector(): constructor and init(); api says whether
\* the preload script exposed window.streamSelector
constructor(p, api) ==
    [p EXCEPT !.phase = "ready",
              !.api = api,
              !.listening = api,
              !.selectedSource = NoSource,
              !.sources = {},
              !.isSubmitting = FALSE,
              !.activeTab = "screens"]

\* renderFilteredSources() that renders every source, whatever the tab
renderFilteredSourcesShowsAll(p) ==
    IF p.sources = {} THEN p
    ELSE [p EXCEPT !.gridShown = TRUE, !.grid = p.sources, !.selectedEls = {}]

\* renderFilteredSources() and renderSources(): grid holds the ids of the
\* elements of sourcesGrid, selectedEls those with class 'selected'
renderFilteredSources(p) ==
    LET filtered == {id \in p.sources :
                        IF p.activeTab = "screens" THEN IsScreen(id) ELSE ~IsScreen(id)}
    IN IF p.sources = {} THEN p
       ELSE IF filtered = {} THEN [p EXCEPT !.gridShown = FALSE]
       ELSE [p EXCEPT !.gridShown = TRUE, !.grid = filtered, !.selectedEls = {}]

\* handleSourcesReceived(sources)
handleSourcesReceived(p, ids) ==
    LET p1 == [p EXCEPT !.sources = ids]
    IN IF ids = {} THEN p1
       ELSE [renderFilteredSources(p1) EXCEPT !.gridShown = TRUE]

\* switchTab that keeps the selection and the confirm button as they are
switchTabKeepsSelection(p, tabName) ==
    renderFilteredSources([p EXCEPT !.activeTab = tabName])

\* switchTab(tabName)
switchTab(p, tabName) ==
    renderFilteredSources([p EXCEPT !.activeTab = tabName,
                                    !.selectedSource = NoSource,
                                    !.shareBtnDisabled = TRUE])

\* selectSource(source, sourceEl): querySelector finds the first element
\* with class 'selected'
selectSource(p, id) ==
    LET previous == IF p.selectedEls = {} THEN {}
                    ELSE {CHOOSE e \in p.selectedEls : TRUE}
    IN [p EXCEPT !.selectedEls = (@ \ previous) \cup {id},
                 !.selectedSource = id,
                 !.shareBtnDisabled = FALSE]

\* handleShare(); throws says whether window.streamSelector.selectSource
\* threw
handleShare(p, throws) ==
    IF p.isSubmitting THEN p
    ELSE IF p.selectedSource = NoSource THEN p
    ELSE IF p.api /\ ~throws
    THEN [p EXCEPT !.isSubmitting = TRUE,
                   !.shareBtnDisabled = TRUE,
                   !.sent = Append(@, SourceSelectedMessage(p.selectedSource,
                                                            SerializableFields))]
    ELSE [p EXCEPT !.isSubmitting = FALSE, !.shareBtnDisabled = FALSE]

\* cleanup(): window.streamSelector.removeAllListeners()
cleanup(p) == [p EXCEPT !.listening = FALSE]

\* handleCancel(): window.close() asks for the window to be closed, the
\* page lives on until it is unloaded
handleCancel(p) ==
    LET p1 == [p EXCEPT !.isSubmitting = FALSE, !.shareBtnDisabled = TRUE]
        p2 == IF p1.api
              THEN [p1 EXCEPT !.sent = Append(@, SelectionCancelledMessage)]
              ELSE p1
    IN [cleanup(p2) EXCEPT !.closeRequested = TRUE]

\* handleKeyDown(e): onShareBtn says document.activeElement === shareBtn
handleKeyDown(p, key, onShareBtn, throws) ==
    IF key = "Escape" THEN handleCancel(p)
    ELSE IF key = "Enter" /\ onShareBtn THEN handleShare(p, throws)
    ELSE p

\* ---------------------------------------- two selectors in one process
\* the StreamSelector objects; object i is handed callback i and creates
\* window i
Instances == {1, 2}

\* activeStreamSelector = null
NoSelector == 0

\* new StreamSelector(parentWindow), and where its show() call is
NewSelector(i) ==
    [pickerWindow |-> NoWindow,
     currentCallback |-> NoCallback,
     sources |-> [fetch |-> 0, ids |-> {}],
     win |-> [w \in {i} |-> NoWin],
     calls |-> [k \in {i} |-> <<>>],
     fetch |-> "none",
     uncaught |-> FALSE,
     screenShareErrors |-> 0]

\* the module display-capture/index.js before an object of its class has
\* been created
NoSelectors ==
    [activeStreamSelector |-> NoSelector,
     inst |-> [i \in {} |-> NewSelector(i)]]

\* ------------------------------------------------ the preload IPC bridge
\* the channels of the doc comment's example, and one that no list names
ListedChannels == {"selected-source", "sources-list"}
BridgeChannels == ListedChannels \cup {"close-view"}

\* values passed as namespace: two strings, undefined and a number
Namespaces ==
    {[type |-> "string", value |-> "api"],
     [type |-> "string", value |-> ""],
     [type |-> "undefined", value |-> "undefined"],
     [type |-> "number", value |-> "42"]}

\* !namespace
Falsy(namespace) ==
    namespace.type = "undefined" \/ (namespace.type = "string" /\ namespace.value = "")

\* a renderer before its preload script has called createIpcBridge:
\* methods are the properties of api, exposed the names in the main world,
\* forwarded the ipcRenderer.send / invoke calls made, listeners the
\* ipcRenderer.on / once calls made, result what the last call gave back
NoBridge ==
    [phase |-> "none",
     sendChannels |-> {},
     receiveChannels |-> {},
     methods |-> {},
     exposed |-> {},
     forwarded |-> {},
     listeners |-> {},
     result |-> "none"]

\* createIpcBridge(namespace, {sendChannels, receiveChannels})
createIpcBridge(b, namespace, sendChannels, receiveChannels) ==
    IF Falsy(namespace) \/ namespace.type # "string"
    THEN [b EXCEPT !.phase = "threw", !.result = "Error"]
    ELSE [b EXCEPT
            !.phase = "exposed",
            !.sendChannels = sendChannels,
            !.receiveChannels = receiveChannels,
            !.methods = (IF sendChannels # {} THEN {"send", "invoke"} ELSE {})
                        \cup (IF receiveChannels # {} THEN {"on", "once"} ELSE {}),
            !.exposed = {namespace.value},
            !.result = "undefined"]

\* window[namespace].send(channel, data)
apiSend(b, channel) ==
    IF "send" \notin b.methods THEN [b EXCEPT !.result = "TypeError"]
    ELSE IF channel \in b.sendChannels
    THEN [b EXCEPT !.forwarded = @ \cup {<<"send", channel>>},
                   !.result = "undefined"]
    ELSE [b EXCEPT !.result = "undefined"]

\* api.invoke without the test of the channel
apiInvokeForwardsAll(b, channel) ==
    IF "invoke" \notin b.methods THEN [b EXCEPT !.result = "TypeError"]
    ELSE [b EXCEPT !.forwarded = @ \cup {<<"invoke", channel>>},
                   !.result = "promise"]

\* window[namespace].invoke(channel, data)
apiInvoke(b, channel) ==
    IF "invoke" \notin b.methods THEN [b EXCEPT !.result = "TypeError"]
    ELSE IF channel \in b.sendChannels
    THEN [b EXCEPT !.forwarded = @ \cup {<<"invoke", channel>>},
                   !.result = "promise"]
    ELSE [b EXCEPT !.result = "rejected"]

\* window[namespace].on(channel, callback)
apiOn(b, channel) ==
    IF "on" \notin b.methods THEN [b EXCEPT !.result = "TypeError"]
    ELSE IF channel \in b.receiveChannels
    THEN [b EXCEPT !.listeners = @ \cup {<<"on", channel>>},
                   !.result = "undefined"]
    ELSE [b EXCEPT !.result = "undefined"]

\* window[namespace].once(channel, callback)
apiOnce(b, channel) ==
    IF "once" \notin b.methods THEN [b EXCEPT !.result = "TypeError"]
    ELSE IF channel \in b.receiveChannels
    THEN [b EXCEPT !.listeners = @ \cup {<<"once", channel>>},
                   !.result = "undefined"]
    ELSE [b EXCEPT !.result = "undefined"]

\* ------------------------------------- the screen-share handlers of main
\* notifications sent to the host content in a behaviour
MaxNotices == 3

\* a property of the global object that was never assigned
UndefinedValue == [kind |-> "undefined", id |-> "", fetch |-> 0]

\* what a show() callback of the handlers can be invoked with: null, an
\* entry of the catalog, or an object received from a picker
CallbackValues ==
    {NullValue} \cup {CaptureSource(id, 1) : id \in SourceIds}
                \cup {Payload(TamperedId)}

\* webContents.send('screen-sharing-source-selected', {sourceId,
\* sourceName, isActive: true})
SelectedNotice(selectedSource) ==
    [channel |-> "screen-sharing-source-selected", isActive |-> TRUE,
     sourceId |-> selectedSource.id, cancelled |-> FALSE]

\* webContents.send('screen-sharing-source-selected', {isActive: false,
\* cancelled: true})
CancelledNotice ==
    [channel |-> "screen-sharing-source-selected", isActive |-> FALSE,
     sourceId |-> "", cancelled |-> TRUE]

\* webContents.send('screen-sharing-status-changed', {isActive: false})
StoppedNotice ==
    [channel |-> "screen-sharing-status-changed", isActive |-> FALSE,
     sourceId |-> "", cancelled |-> FALSE]

\* the main process after init(mainWindow), the main window alive:
\* global.selectedScreenShareSource, the notifications sent to the host
\* content, whether a get-screen-share-stream request is at its await, and
\* what the last request was answered with; sharing records whether a flow
\* has resolved with a source and nothing has stopped or cleared it since
HostState ==
    [selectedScreenShareSource |-> UndefinedValue,
     sent |-> <<>>,
     validating |-> FALSE,
     reply |-> "none",
     sharing |-> FALSE]

\* if (selectedSource): null is the falsy value a callback gets
Truthy(value) == value.kind \in {"source", "payload"}

\* the callback ipcMain.on('trigger-screen-share') hands to show()
triggerCallback(h, selectedSource) ==
    IF Truthy(selectedSource)
    THEN [h EXCEPT !.selectedScreenShareSource = selectedSource,
                   !.sent = Append(@, SelectedNotice(selectedSource))]
    ELSE [h EXCEPT !.sent = Append(@, CancelledNotice)]

\* the callback the display media request handler hands to show()
displayMediaCallback(h, selectedSource) ==
    IF Truthy(selectedSource)
    THEN [h EXCEPT !.selectedScreenShareSource = selectedSource]
    ELSE h

\* ipcMain.on('screen-sharing-stopped')
screenSharingStopped(h) ==
    [h EXCEPT !.selectedScreenShareSource = NullValue,
              !.sent = Append(@, StoppedNotice)]

\* ipcMain.handle('get-screen-sharing-status'): !== null
getScreenSharingStatus(h) == h.selectedScreenShareSource # NullValue

\* ipcMain.handle('get-screen-share-stream') up to its await
getScreenShareStreamStart(h) ==
    IF Truthy(h.selectedScreenShareSource)
    THEN [h EXCEPT !.validating = TRUE]
    ELSE [h EXCEPT !.reply = "null"]

\* ipcMain.handle('get-screen-share-stream') after its await: getSources
\* fulfilled with ids, or rejected; reading .id of null throws a TypeError
getScreenShareStreamResume(h, ids, rejected) ==
    LET current == h.selectedScreenShareSource
        h1 == [h EXCEPT !.validating = FALSE]
    IN IF rejected
       THEN [h1 EXCEPT !.reply = IF Truthy(current) THEN current.id ELSE "TypeError"]
       ELSE IF ids = {}
       THEN [h1 EXCEPT !.selectedScreenShareSource = NullValue, !.reply = "null"]
       ELSE IF ~Truthy(current)
       THEN [h1 EXCEPT !.reply = "TypeError"]
       ELSE IF current.id \in ids
       THEN [h1 EXCEPT !.reply = current.id]
       ELSE [h1 EXCEPT !.selectedScreenShareSource = NullValue, !.reply = "null"]

\* a get-screen-share-stream request carried through without another
\* handler in between
getScreenShareStream(h, ids, rejected) ==
    LET h1 == getScreenShareStreamStart(h)
    IN IF h1.validating THEN getScreenShareStreamResume(h1, ids, rejected) ELSE h1

Init ==
    /\ revision \in {1, 2}
    /\ activeStreamSelector = FALSE
    /\ pickerWindow = NoWindow
    /\ currentCallback = NoCallback
    /\ sources = [fetch |-> 0, ids |-> {}]
    /\ shows = 0
    /\ fetch = [k \in Calls |-> "none"]
    /\ catalogOf = [k \in Calls |-> {}]
    /\ win = [w \in Windows |-> NoWin]
    /\ calls = [k \in Calls |-> <<>>]
    /\ uncaught = FALSE
    /\ screenShareErrors = 0
    /\ allowedChannels = AllowedChannelSet
    /\ now = 0
    /\ requests = [key \in {} |-> [count |-> 0, resetTime |-> 0]]
    /\ arrived = [key \in Keys |-> 0]
    /\ handled = {}
    /\ picker = PickerPage
    /\ accepted = <<>>
    /\ selectors = NoSelectors
    /\ bridge = NoBridge
    /\ host = HostState

\* show(callback) up to its await
Show ==
    /\ UNCHANGED <<boundaryVars, rendererVars, pairVars, bridgeVars, hostVars>>
    /\ shows < MaxShows
    /\ shows' = shows + 1
    /\ IF pickerWindow # NoWindow
       THEN /\ fetch' = [fetch EXCEPT ![shows + 1] = "refocused"]
            /\ UNCHANGED <<currentCallback, activeStreamSelector>>
       ELSE /\ currentCallback' = shows + 1
            /\ activeStreamSelector' = TRUE
            /\ fetch' = [fetch EXCEPT ![shows + 1] = "pending"]
    /\ UNCHANGED <<revision, pickerWindow, sources, catalogOf, win, calls,
                   uncaught, screenShareErrors>>

\* the suspended show() calls
Pending == {k \in Calls : fetch[k] = "pending"}

\* the show() call that resumes next
Oldest(k) == k \in Pending /\ \A j \in Pending : k <= j

\* StreamSelector.createPickerWindow()
createPickerWindow(s, k) ==
    [s EXCEPT !.pickerWindow = k, !.win = [s.win EXCEPT ![k] = NewWin]]

\* show() after its await, getSources fulfilled with the catalog ids
FetchOk(k, ids) ==
    /\ UNCHANGED <<boundaryVars, rendererVars, pairVars, bridgeVars, hostVars>>
    /\ Oldest(k)
    /\ catalogOf' = [catalogOf EXCEPT ![k] = ids]
    /\ LET s1 == [State EXCEPT !.sources = [fetch |-> k, ids |-> ids]]
       IN IF ids = {}
          THEN /\ fetch' = [fetch EXCEPT ![k] = "empty"]
               /\ Commit(handleSelection(s1, NullValue))
               /\ screenShareErrors' =
                     IF revision = 2 THEN screenShareErrors + 1
                     ELSE screenShareErrors
          ELSE /\ fetch' = [fetch EXCEPT ![k] = "ok"]
               /\ Commit(createPickerWindow(s1, k))
               /\ UNCHANGED screenShareErrors
    /\ UNCHANGED <<revision, shows, uncaught>>

\* show() after its await, getSources rejected
FetchError(k) ==
    /\ UNCHANGED <<boundaryVars, rendererVars, pairVars, bridgeVars, hostVars>>
    /\ Oldest(k)
    /\ fetch' = [fetch EXCEPT ![k] = "error"]
    /\ Commit(handleSelection(State, NullValue))
    /\ screenShareErrors' =
          IF revision = 2 THEN screenShareErrors + 1 ELSE screenShareErrors
    /\ UNCHANGED <<revision, shows, catalogOf, uncaught>>

\* a window that exists and has not been destroyed
Live(w) == win[w].state \in {"hidden", "shown"}

\* lines 106-112: the entries of this.sources as plain objects, thumbnail
\* and appIcon as toDataURL() strings (appIcon null when there is none)
serializableSources(src) ==
    [fetch |-> src.fetch, ids |-> src.ids,
     thumbnail |-> "dataURL", appIcon |-> "dataURL"]

\* line 302: this.sources itself, thumbnail and appIcon as NativeImage
rawSources(src) ==
    [fetch |-> src.fetch, ids |-> src.ids,
     thumbnail |-> "NativeImage", appIcon |-> "NativeImage"]

\* pickerWindow.once('ready-to-show', ...) of window w
ReadyToShow(w) ==
    /\ UNCHANGED <<boundaryVars, rendererVars, pairVars, bridgeVars, hostVars>>
    /\ Live(w)
    /\ ~win[w].ready
    /\ IF pickerWindow = NoWindow
       THEN /\ uncaught' = TRUE
            /\ win' = [win EXCEPT ![w].ready = TRUE]
       ELSE /\ win' = [win EXCEPT
                         ![w].ready = TRUE,
                         ![pickerWindow].state = "shown",
                         ![pickerWindow].recv =
                             Append(@, IF revision = 1
                                       THEN serializableSources(sources)
                                       ELSE rawSources(sources))]
            /\ UNCHANGED uncaught
    /\ UNCHANGED <<revision, activeStreamSelector, pickerWindow,
                   currentCallback, sources, shows, fetch, catalogOf, calls,
                   screenShareErrors>>

\* ipcMain.on('source-selected'): both revisions ignore the message when
\* activeStreamSelector is null
onSourceSelected(s, source) ==
    IF s.activeStreamSelector THEN handleSelection(s, source) ELSE s

\* ipcMain.on('selection-cancelled'), lines 27-33: the call on a null
\* activeStreamSelector throws inside the try and is caught
onSelectionCancelledR1(s) ==
    IF s.activeStreamSelector THEN handleSelection(s, NullValue) ELSE s

\* ipcMain.on('selection-cancelled'), lines 214-218
onSelectionCancelledR2(s) ==
    IF s.activeStreamSelector THEN handleSelection(s, NullValue) ELSE s

\* the picker of window w is on screen and its renderer can send
CanSend(w) == win[w].state = "shown"

\* a source-selected message of the picker in window w is handled
SourceSelected(w, id) ==
    /\ UNCHANGED <<boundaryVars, rendererVars, pairVars, bridgeVars, hostVars>>
    /\ CanSend(w)
    /\ Commit(onSourceSelected(State, Payload(id)))
    /\ UNCHANGED <<revision, shows, fetch, catalogOf, uncaught,
                   screenShareErrors>>

\* a selection-cancelled message of the picker in window w is handled
SelectionCancelled(w) ==
    /\ UNCHANGED <<boundaryVars, rendererVars, pairVars, bridgeVars, hostVars>>
    /\ CanSend(w)
    /\ Commit(IF revision = 1 THEN onSelectionCancelledR1(State)
              ELSE onSelectionCancelledR2(State))
    /\ UNCHANGED <<revision, shows, fetch, catalogOf, uncaught,
                   screenShareErrors>>

\* pickerWindow.on('closed'), lines 116-118
onClosedR1(s) == [s EXCEPT !.pickerWindow = NoWindow]

\* pickerWindow.on('closed'), lines 305-311
onClosedR2(s) ==
    LET s1 == [s EXCEPT !.pickerWindow = NoWindow]
    IN IF s1.currentCallback # NoCallback
       THEN handleSelection(s1, NullValue)
       ELSE s1

\* window w is destroyed (after close(), by the user or with its parent)
\* and emits 'closed'
WindowClosed(w) ==
    /\ UNCHANGED <<boundaryVars, rendererVars, pairVars, bridgeVars, hostVars>>
    /\ Live(w)
    /\ LET s1 == [State EXCEPT !.win = [win EXCEPT ![w].state = "destroyed"]]
       IN Commit(IF revision = 1 THEN onClosedR1(s1) ELSE onClosedR2(s1))
    /\ UNCHANGED <<revision, shows, fetch, catalogOf, uncaught,
                   screenShareErrors>>

\* a cancel() call
Cancel ==
    /\ UNCHANGED <<boundaryVars, rendererVars, pairVars, bridgeVars, hostVars>>
    /\ Commit(cancel(State))
    /\ UNCHANGED <<revision, shows, fetch, catalogOf, uncaught,
                   screenShareErrors>>

Next ==
    \/ Show
    \/ \E k \in Calls, ids \in SUBSET SourceIds : FetchOk(k, ids)
    \/ \E k \in Calls : FetchError(k)
    \/ \E w \in Windows : ReadyToShow(w)
    \/ \E w \in Windows, id \in PayloadIds : SourceSelected(w, id)
    \/ \E w \in Windows : SelectionCancelled(w)
    \/ \E w \in Windows : WindowClosed(w)
    \/ Cancel

Spec == Init /\ [][Next]_vars

\* ------------------------------------------- messages at the IPC boundary
\* the message's key has a record whose reset time has not passed
InWindow(key) == key \in DOMAIN requests /\ now <= requests[key].resetTime

\* a message of senderId on channel arrives
Arrive(senderId, channel) ==
    LET key == Key(senderId, channel)
        n == IF InWindow(key) THEN arrived[key] + 1 ELSE 1
    IN /\ n <= MaxArrivals
       /\ n > MaxQuietArrivals =>
             \A k \in Keys \ {key} : arrived[k] <= MaxQuietArrivals
       /\ arrived' = [arrived EXCEPT ![key] = n]
       /\ UNCHANGED accepted

\* time passes in the main process
Tick ==
    /\ now + TickMs <= MaxTicks * TickMs
    /\ now' = now + TickMs
    /\ UNCHANGED <<allowedChannels, requests, arrived, handled, accepted>>
    /\ UNCHANGED <<selectorVars, rendererVars, pairVars, bridgeVars, hostVars>>

\* a message sent with ipcRenderer.send reaches the listener that the
\* wrapped ipcMain.on registered
IpcOn(senderId, channel, payload) ==
    /\ Arrive(senderId, channel)
    /\ CommitBoundary(ipcMainOn(Boundary, senderId, channel, payload).boundary)
    /\ UNCHANGED <<selectorVars, rendererVars, pairVars, bridgeVars, hostVars>>

\* a request made with ipcRenderer.invoke reaches the listener that the
\* wrapped ipcMain.handle registered
IpcInvoke(senderId, channel, payload) ==
    /\ Arrive(senderId, channel)
    /\ CommitBoundary(ipcMainHandle(Boundary, senderId, channel, payload).boundary)
    /\ UNCHANGED <<selectorVars, rendererVars, pairVars, bridgeVars, hostVars>>

\* send(channel, data) of the main window's preload script; the renderer
\* holds its own copy of the validator's Set
PreloadSend(senderId, channel, payload) ==
    IF channel \in allowedChannels
    THEN IpcOn(senderId, channel, payload)
    ELSE UNCHANGED vars

\* invoke(channel, data) of the main window's preload script
PreloadInvoke(senderId, channel, payload) ==
    IF channel \in allowedChannels
    THEN IpcInvoke(senderId, channel, payload)
    ELSE UNCHANGED vars

NextIpc ==
    \/ Tick
    \/ \E s \in Senders, c \in IpcChannels, p \in IpcPayloads : IpcOn(s, c, p)
    \/ \E s \in Senders, c \in IpcChannels, p \in IpcPayloads : IpcInvoke(s, c, p)
    \/ \E s \in Senders, c \in IpcChannels, p \in IpcPayloads : PreloadSend(s, c, p)
    \/ \E s \in Senders, c \in IpcChannels, p \in IpcPayloads : PreloadInvoke(s, c, p)

InitIpc == Init /\ revision = 1

SpecIpc == InitIpc /\ [][NextIpc]_vars

\* --------------------------------------------- bursts at the rate limiter
\* n messages of senderId on channel arrive at the same Date.now() and are
\* put to isAllowed one after the other
Burst(senderId, channel, n) ==
    /\ Len(accepted) < MaxBursts
    /\ LET r == isAllowedTimes(requests, now, senderId, channel, n)
       IN /\ requests' = r.requests
          /\ accepted' = Append(accepted, [key |-> Key(senderId, channel),
                                           at |-> now,
                                           n |-> r.accepted])
    /\ UNCHANGED <<allowedChannels, now, arrived, handled>>
    /\ UNCHANGED <<selectorVars, rendererVars, pairVars, bridgeVars, hostVars>>

NextRate ==
    \/ Tick
    \/ \E s \in Senders, c \in IpcChannels, n \in BurstSizes : Burst(s, c, n)

SpecRate == InitIpc /\ [][NextRate]_vars

\* ------------------------------------------------ events of the picker page
CommitPicker(p) ==
    /\ picker' = p
    /\ UNCHANGED <<selectorVars, boundaryVars, pairVars, bridgeVars, hostVars>>

\* document 'DOMContentLoaded': new ScreenSourceSelector()
DomContentLoaded(api) ==
    /\ picker.phase = "loading"
    /\ CommitPicker(constructor(picker, api))

\* a 'sources-available' message reaches the listener that
\* onSourcesAvailable registered; catalogs counts these messages
SourcesAvailable(ids) ==
    /\ picker.phase = "ready"
    /\ picker.listening
    /\ picker.catalogs < MaxCatalogs
    /\ CommitPicker([handleSourcesReceived(picker, ids) EXCEPT !.catalogs = @ + 1])

\* click on the screens tab or on the windows tab
TabClick(tabName) ==
    /\ picker.phase = "ready"
    /\ CommitPicker(switchTab(picker, tabName))

\* click (or Enter, or Space) on a source element of the visible grid
SourceClick(id) ==
    /\ picker.phase = "ready"
    /\ picker.gridShown
    /\ id \in picker.grid
    /\ CommitPicker(selectSource(picker, id))

\* click on the confirm button, which a disabled button does not emit
ShareClick(throws) ==
    /\ picker.phase = "ready"
    /\ ~picker.shareBtnDisabled
    /\ Len(picker.sent) < MaxSent
    /\ CommitPicker(handleShare(picker, throws))

\* click on the cancel button
CancelClick ==
    /\ picker.phase = "ready"
    /\ Len(picker.sent) < MaxSent
    /\ CommitPicker(handleCancel(picker))

\* document 'keydown'; the confirm button has the focus only while enabled
KeyDown(key, onShareBtn, throws) ==
    /\ picker.phase = "ready"
    /\ onShareBtn => ~picker.shareBtnDisabled
    /\ Len(picker.sent) < MaxSent
    /\ CommitPicker(handleKeyDown(picker, key, onShareBtn, throws))

\* window 'beforeunload': the page goes away
Unload ==
    /\ picker.phase = "ready"
    /\ CommitPicker([cleanup(picker) EXCEPT !.phase = "unloaded"])

NextPicker ==
    \/ \E api \in BOOLEAN : DomContentLoaded(api)
    \/ \E ids \in SUBSET PickerSourceIds : SourcesAvailable(ids)
    \/ \E tabName \in {"screens", "windows"} : TabClick(tabName)
    \/ \E id \in PickerSourceIds : SourceClick(id)
    \/ \E throws \in BOOLEAN : ShareClick(throws)
    \/ CancelClick
    \/ \E key \in {"Escape", "Enter"}, onShareBtn \in BOOLEAN, throws \in BOOLEAN :
          KeyDown(key, onShareBtn, throws)
    \/ Unload

InitPicker == Init /\ revision = 1

SpecPicker == InitPicker /\ [][NextPicker]_vars

\* ---------------------------------- methods of two selector objects
\* what the methods of object i read: its fields, and whether
\* activeStreamSelector === this
This(g, i) ==
    [activeStreamSelector |-> g.activeStreamSelector = i,
     pickerWindow |-> g.inst[i].pickerWindow,
     currentCallback |-> g.inst[i].currentCallback,
     sources |-> g.inst[i].sources,
     win |-> g.inst[i].win,
     calls |-> g.inst[i].calls]

\* the module after a method of object i has left s
After(g, i, s) ==
    [g EXCEPT
       !.activeStreamSelector =
           IF s.activeStreamSelector THEN i
           ELSE IF @ = i THEN NoSelector ELSE @,
       !.inst[i] = [@ EXCEPT !.pickerWindow = s.pickerWindow,
                             !.currentCallback = s.currentCallback,
                             !.sources = s.sources,
                             !.win = s.win,
                             !.calls = s.calls]]

\* ipcMain.on('source-selected') and ipcMain.on('selection-cancelled'): the
\* message of the picker of object i goes to activeStreamSelector
dispatch(g, i, selectedSource) ==
    IF g.activeStreamSelector # NoSelector
    THEN After(g, g.activeStreamSelector,
               handleSelection(This(g, g.activeStreamSelector), selectedSource))
    ELSE g

\* new StreamSelector(mainWindow) creates object i
newSelectorOn(g, i) ==
    [g EXCEPT !.inst = [j \in DOMAIN @ \cup {i} |->
                           IF j = i THEN NewSelector(i) ELSE @[j]]]

\* show(callback) of object i up to its await
showOn(g, i) ==
    IF g.inst[i].pickerWindow # NoWindow
    THEN [g EXCEPT !.inst[i].fetch = "refocused"]
    ELSE [g EXCEPT !.inst[i].currentCallback = i,
                   !.inst[i].fetch = "pending",
                   !.activeStreamSelector = i]

\* show() of object i after its await, getSources fulfilled with ids
fetchOkOn(g, i, ids, rev) ==
    LET s1 == [This(g, i) EXCEPT !.sources = [fetch |-> i, ids |-> ids]]
    IN IF ids = {}
       THEN [After(g, i, handleSelection(s1, NullValue)) EXCEPT
               !.inst[i].fetch = "empty",
               !.inst[i].screenShareErrors = IF rev = 2 THEN @ + 1 ELSE @]
       ELSE [After(g, i, createPickerWindow(s1, i)) EXCEPT
               !.inst[i].fetch = "ok"]

\* show() of object i after its await, getSources rejected
fetchErrorOn(g, i, rev) ==
    [After(g, i, handleSelection(This(g, i), NullValue)) EXCEPT
       !.inst[i].fetch = "error",
       !.inst[i].screenShareErrors = IF rev = 2 THEN @ + 1 ELSE @]

\* pickerWindow.once('ready-to-show', ...) of the window of object i
readyToShowOn(g, i, rev) ==
    IF g.inst[i].pickerWindow = NoWindow
    THEN [g EXCEPT !.inst[i].uncaught = TRUE, !.inst[i].win[i].ready = TRUE]
    ELSE [g EXCEPT
            !.inst[i].win[i].ready = TRUE,
            !.inst[i].win[i].state = "shown",
            !.inst[i].win[i].recv =
                Append(@, IF rev = 1
                          THEN serializableSources(g.inst[i].sources)
                          ELSE rawSources(g.inst[i].sources))]

\* pickerWindow.on('closed') of the window of object i
closedOn(g, i, rev) ==
    LET s1 == [This(g, i) EXCEPT !.win[i].state = "destroyed"]
    IN After(g, i, IF rev = 1 THEN onClosedR1(s1) ELSE onClosedR2(s1))

\* --------------------------------------- events of two selector objects
CommitSelectors(g) ==
    /\ selectors' = g
    /\ UNCHANGED <<selectorVars, boundaryVars, rendererVars, bridgeVars, hostVars>>

\* object i has been created
Created(i) == i \in DOMAIN selectors.inst

\* the window of object i exists and has not been destroyed
LiveOn(i) == Created(i) /\ selectors.inst[i].win[i].state \in {"hidden", "shown"}

\* the picker of object i is on screen and its renderer can send
CanSendOn(i) == Created(i) /\ selectors.inst[i].win[i].state = "shown"

\* a trigger-screen-share message creates object i
NewSelectorOn(i) ==
    /\ ~Created(i)
    /\ CommitSelectors(newSelectorOn(selectors, i))

\* show(callback i) is called on object i
ShowOn(i) ==
    /\ Created(i)
    /\ selectors.inst[i].fetch = "none"
    /\ CommitSelectors(showOn(selectors, i))

FetchOkOn(i, ids) ==
    /\ Created(i)
    /\ selectors.inst[i].fetch = "pending"
    /\ CommitSelectors(fetchOkOn(selectors, i, ids, revision))

FetchErrorOn(i) ==
    /\ Created(i)
    /\ selectors.inst[i].fetch = "pending"
    /\ CommitSelectors(fetchErrorOn(selectors, i, revision))

ReadyToShowOn(i) ==
    /\ LiveOn(i)
    /\ ~selectors.inst[i].win[i].ready
    /\ CommitSelectors(readyToShowOn(selectors, i, revision))

\* a source-selected message of the picker of object i is handled
SourceSelectedFrom(i, id) ==
    /\ CanSendOn(i)
    /\ CommitSelectors(dispatch(selectors, i, Payload(id)))

\* a selection-cancelled message of the picker of object i is handled
SelectionCancelledFrom(i) ==
    /\ CanSendOn(i)
    /\ CommitSelectors(dispatch(selectors, i, NullValue))

\* the window of object i is destroyed and emits 'closed'
WindowClosedOn(i) ==
    /\ LiveOn(i)
    /\ CommitSelectors(closedOn(selectors, i, revision))

NextPair ==
    \/ \E i \in Instances : NewSelectorOn(i)
    \/ \E i \in Instances : ShowOn(i)
    \/ \E i \in Instances, ids \in SUBSET SourceIds : FetchOkOn(i, ids)
    \/ \E i \in Instances : FetchErrorOn(i)
    \/ \E i \in Instances : ReadyToShowOn(i)
    \/ \E i \in Instances, id \in PayloadIds : SourceSelectedFrom(i, id)
    \/ \E i \in Instances : SelectionCancelledFrom(i)
    \/ \E i \in Instances : WindowClosedOn(i)

SpecPair == Init /\ [][NextPair]_vars

\* ------------------------------------------------- calls on the bridge
CommitBridge(b) ==
    /\ bridge' = b
    /\ UNCHANGED <<selectorVars, boundaryVars, rendererVars, pairVars, hostVars>>

\* the preload script runs
CreateIpcBridge(namespace, sendChannels, receiveChannels) ==
    /\ bridge.phase = "none"
    /\ CommitBridge(createIpcBridge(bridge, namespace, sendChannels, receiveChannels))

\* the page calls a method of the exposed object
ApiSend(channel) ==
    /\ bridge.phase = "exposed"
    /\ CommitBridge(apiSend(bridge, channel))

ApiInvoke(channel) ==
    /\ bridge.phase = "exposed"
    /\ CommitBridge(apiInvoke(bridge, channel))

ApiOn(channel) ==
    /\ bridge.phase = "exposed"
    /\ CommitBridge(apiOn(bridge, channel))

ApiOnce(channel) ==
    /\ bridge.phase = "exposed"
    /\ CommitBridge(apiOnce(bridge, channel))

NextBridge ==
    \/ \E namespace \in Namespaces,
          sendChannels \in SUBSET ListedChannels,
          receiveChannels \in SUBSET ListedChannels :
          CreateIpcBridge(namespace, sendChannels, receiveChannels)
    \/ \E channel \in BridgeChannels : ApiSend(channel)
    \/ \E channel \in BridgeChannels : ApiInvoke(channel)
    \/ \E channel \in BridgeChannels : ApiOn(channel)
    \/ \E channel \in BridgeChannels : ApiOnce(channel)

SpecBridge == Init /\ [][NextBridge]_vars

\* ------------------------------------- events of the screen-share handlers
\* sharing is set by a flow that resolves with a source and reset by
\* a screen-sharing-stopped message and by the clearing of a stale source
CommitHost(h) ==
    /\ host' = h
    /\ UNCHANGED <<selectorVars, boundaryVars, rendererVars, pairVars, bridgeVars>>

\* the selector invokes the callback of a trigger-screen-share message
TriggerCallback(selectedSource) ==
    /\ Len(host.sent) < MaxNotices
    /\ CommitHost([triggerCallback(host, selectedSource) EXCEPT
                     !.sharing = @ \/ Truthy(selectedSource)])

\* the selector invokes the callback of a display media request
DisplayMediaCallback(selectedSource) ==
    CommitHost([displayMediaCallback(host, selectedSource) EXCEPT
                  !.sharing = @ \/ Truthy(selectedSource)])

\* a screen-sharing-stopped message of the host content is handled
ScreenSharingStopped ==
    /\ Len(host.sent) < MaxNotices
    /\ CommitHost([screenSharingStopped(host) EXCEPT !.sharing = FALSE])

\* a get-screen-sharing-status request is answered
GetScreenSharingStatus ==
    CommitHost([host EXCEPT !.reply = IF getScreenSharingStatus(host)
                                      THEN "true" ELSE "false"])

\* a get-screen-share-stream request arrives, one at a time
GetScreenShareStreamStart ==
    /\ ~host.validating
    /\ CommitHost(getScreenShareStreamStart(host))

\* its getSources call settles
GetScreenShareStreamResume(ids, rejected) ==
    /\ host.validating
    /\ LET h == getScreenShareStreamResume(host, ids, rejected)
       IN CommitHost([h EXCEPT !.sharing =
                        IF h.selectedScreenShareSource = host.selectedScreenShareSource
                        THEN @ ELSE FALSE])

NextHost ==
    \/ \E v \in CallbackValues : TriggerCallback(v)
    \/ \E v \in CallbackValues : DisplayMediaCallback(v)
    \/ ScreenSharingStopped
    \/ GetScreenSharingStatus
    \/ GetScreenShareStreamStart
    \/ \E ids \in SUBSET SourceIds, rejected \in BOOLEAN :
          GetScreenShareStreamResume(ids, rejected)

SpecHost == Init /\ [][NextHost]_vars

TypeOK ==
    /\ revision \in {1, 2}
    /\ activeStreamSelector \in BOOLEAN
    /\ pickerWindow \in Windows \cup {NoWindow}
    /\ currentCallback \in Calls \cup {NoCallback}
    /\ shows \in 0..MaxShows
    /\ \A k \in Calls : fetch[k] \in {"none", "refocused", "pending", "empty", "error", "ok"}
    /\ uncaught \in BOOLEAN
    /\ allowedChannels \subseteq AllowedChannelSet \cup IpcChannels
    /\ now \in 0..(MaxTicks * TickMs)
    /\ DOMAIN requests \subseteq Keys
    /\ \A key \in DOMAIN requests : requests[key].count \in 1..MaxArrivals
    /\ \A key \in Keys : arrived[key] \in 0..MaxArrivals
    /\ handled \subseteq IpcChannels
    /\ picker.phase \in {"loading", "ready", "unloaded"}
    /\ picker.selectedSource \in PickerSourceIds \cup {NoSource}
    /\ picker.activeTab \in {"screens", "windows"}
    /\ Len(picker.sent) <= MaxSent
    /\ picker.catalogs \in 0..MaxCatalogs
    /\ Len(accepted) <= MaxBursts
    /\ \A i \in 1..Len(accepted) : accepted[i].n \in 0..windowLimit
    /\ selectors.activeStreamSelector \in Instances \cup {NoSelector}
    /\ DOMAIN selectors.inst \subseteq Instances
    /\ \A i \in DOMAIN selectors.inst :
          selectors.inst[i].currentCallback \in {i, NoCallback}
    /\ bridge.phase \in {"none", "threw", "exposed"}
    /\ bridge.methods \subseteq {"send", "invoke", "on", "once"}
    /\ Len(host.sent) <= MaxNotices
    /\ host.validating \in BOOLEAN

\* ------------------------------------------------------------ the claims

\* nothing is left to run: no show() is suspended and no window exists
Quiescent == Pending = {} /\ \A w \in Windows : ~Live(w)

\* C1: the callback of every show() call is invoked exactly once: never
\* twice, and once nothing is left to run (no fetch suspended, no picker
\* window alive) it has been invoked.
C1_CallbackExactlyOnce ==
    /\ \A k \in Calls : Len(calls[k]) <= 1
    /\ Quiescent => \A k \in 1..shows : Len(calls[k]) = 1

\* C2: a show() call made while a callback is pending starts no fetch,
\* creates no window and leaves the pending callback in its slot.
C2_ReentrantShowKeepsFlow ==
    [][(shows' = shows + 1 /\ currentCallback # NoCallback)
         => /\ currentCallback' = currentCallback
            /\ fetch'[shows'] = "refocused"
            /\ win' = win]_vars

\* C3: a source-selected message whose id is not in the catalog fetched
\* for the pending flow invokes the pending callback with null.
C3_UnknownIdResolvesNull ==
    [][\A w \in Windows, id \in PayloadIds :
         (/\ SourceSelected(w, id)
          /\ currentCallback # NoCallback
          /\ fetch[currentCallback] = "ok"
          /\ id \notin catalogOf[currentCallback])
         => calls'[currentCallback] = Append(calls[currentCallback], NullValue)]_vars

\* C4: a source-selected message whose id is in the catalog fetched for
\* the pending flow invokes the pending callback with the entry of that
\* catalog, the object the fetch returned.
C4_KnownIdResolvesOriginal ==
    [][\A w \in Windows, id \in PayloadIds :
         (/\ currentCallback # NoCallback
          /\ fetch[currentCallback] = "ok"
          /\ id \in catalogOf[currentCallback]
          /\ SourceSelected(w, id))
         => calls'[currentCallback] =
               Append(calls[currentCallback], CaptureSource(id, currentCallback))]_vars

\* a callback received the entry with id "screen:0" of its own catalog
C4_Witness ==
    \E k \in Calls :
        /\ "screen:0" \in catalogOf[k]
        /\ calls[k] = <<CaptureSource("screen:0", k)>>

\* C5: a flow whose fetch returned no entry has had its callback invoked
\* with null, and no picker window was created for it or is referenced
\* when it resolves.
C5_EmptyCatalogResolvesNull ==
    [][\A k \in Calls :
         FetchOk(k, {})
         => /\ calls'[k] = <<NullValue>>
            /\ win'[k] = NoWin
            /\ pickerWindow = NoWindow /\ pickerWindow' = NoWindow]_vars

\* C6: a flow whose fetch failed has had its callback invoked with null,
\* no exception escaped, no picker window was created, and the selector is
\* idle again: no callback stored and no window in the way of a new show().
C6_FetchErrorResolvesNull ==
    [][\A k \in Calls :
         FetchError(k)
         => /\ calls'[k] = <<NullValue>>
            /\ ~uncaught'
            /\ win'[k] = NoWin
            /\ currentCallback' = NoCallback
            /\ pickerWindow' = NoWindow]_vars

\* C7: when a selection-cancelled message of the shown picker is handled,
\* or that picker's window emits 'closed', while a callback is pending,
\* the pending callback is invoked with null.
C7_CancelOrCloseResolvesNull ==
    [][\A w \in Windows :
         (/\ SelectionCancelled(w) \/ WindowClosed(w)
          /\ currentCallback # NoCallback
          /\ pickerWindow = w
          /\ win[w].state = "shown")
         => calls'[currentCallback] = Append(calls[currentCallback], NullValue)]_vars

\* the callback of the flow that created window w has been invoked
Resolved(w) == calls[w] # <<>>

\* C8: once a flow's callback has been invoked, a message or a 'closed'
\* event of that flow's picker window invokes no callback, lets no
\* exception escape and leaves currentCallback and the catalog as they are.
C8_LateEventsAreNoOps ==
    [][\A w \in Windows :
         (/\ Resolved(w)
          /\ \/ \E id \in PayloadIds : SourceSelected(w, id)
             \/ SelectionCancelled(w)
             \/ WindowClosed(w))
         => /\ calls' = calls
            /\ currentCallback' = currentCallback
            /\ sources' = sources
            /\ uncaught' = uncaught]_vars

\* C9: a second handleSelection(null) / cancel() right after a first one
\* changes nothing: no callback invoked, no window closed.
C9_CancelIdempotent ==
    LET once == cancel(State)
        twice == cancel(once)
    IN /\ twice.calls = once.calls
       /\ twice.win = once.win
       /\ twice = once

\* a pending flow with its picker open was resolved with null and its
\* picker asked to close, as the first cancel() does
C9_Witness ==
    \E k \in Calls :
        /\ currentCallback = NoCallback
        /\ calls[k] = <<NullValue>>
        /\ win[k].state = "shown" /\ win[k].closing
        /\ cancel(State) = State

\* C10: whenever no callback is pending and no show() is suspended, no
\* picker window of the instance is open: each is destroyed or closing.
C10_IdleHasNoPicker ==
    (currentCallback = NoCallback /\ Pending = {})
        => \A w \in Windows : Live(w) => win[w].closing

\* C11: cancel() while a callback is pending invokes that callback with
\* null and asks the open picker to close; cancel() with no callback
\* pending invokes no callback; isOpen() is true exactly in the states
\* where a picker window of the instance exists and is not destroyed.
C11_CancelAndIsOpen ==
    /\ [](isOpen(State) <=> \E w \in Windows : Live(w))
    /\ [][Cancel =>
            IF currentCallback # NoCallback
            THEN /\ calls'[currentCallback] =
                        Append(calls[currentCallback], NullValue)
                 /\ isOpen(State) => win'[pickerWindow].closing
            ELSE calls' = calls]_vars

\* C12: validateIpcChannel answers true exactly for the channels of
\* allowedChannels, whatever the payload; a message on a channel that is
\* not in allowedChannels never gets the registered handler executed: the
\* on-wrapper drops it, the handle-wrapper rejects it.
C12_OnlyAllowedChannelsHandled ==
    /\ handled \subseteq allowedChannels
    /\ \A s \in Senders, c \in IpcChannels, p \in IpcPayloads :
         /\ validateIpcChannel(allowedChannels, c, p).ok <=> c \in allowedChannels
         /\ c \notin allowedChannels =>
              /\ ~ipcMainOn(Boundary, s, c, p).ran
              /\ ipcMainOn(Boundary, s, c, p).reply = "dropped"
              /\ ~ipcMainHandle(Boundary, s, c, p).ran
              /\ ipcMainHandle(Boundary, s, c, p).reply
                    \in {"Rate limit exceeded", "Unauthorized IPC channel"}

\* messages arrived on the listed and on the unlisted channel, and only
\* the handler of the listed one has run
C12_Witness ==
    /\ arrived[Key(1, "selected-source")] >= 1
    /\ arrived[Key(1, "source-selected")] >= 1
    /\ handled = {"source-selected"}

\* C13: for every channel, listed or not, and every object payload, after
\* validateIpcChannel returns the payload has none of the own properties
\* __proto__, constructor, prototype, its other own properties are as
\* before, and the answer is the one any other payload gets on that channel.
C13_PayloadSanitizedOnEveryChannel ==
    \A c \in IpcChannels, p \in IpcPayloads :
        p.isObject =>
            LET v == validateIpcChannel(allowedChannels, c, p)
            IN /\ v.payload.props \cap DangerousProps = {}
               /\ v.payload.props = p.props \ DangerousProps
               /\ \A q \in IpcPayloads :
                     validateIpcChannel(allowedChannels, c, q).ok = v.ok

\* the smaller of two numbers
Min(a, b) == IF a <= b THEN a ELSE b

\* C14: per sender and channel, of the messages that arrive in one window
\* (from the message that starts it up to its reset time) isAllowed answers
\* true for the first 100 and false for every later one, and a rejected
\* message leaves the counter as it is.
C14_FirstHundredPerWindow ==
    /\ [](\A key \in DOMAIN requests :
             requests[key].count = Min(arrived[key], windowLimit))
    /\ [][\A s \in Senders, c \in IpcChannels :
            (\E p \in IpcPayloads : IpcOn(s, c, p) \/ IpcInvoke(s, c, p))
            => /\ isAllowed(requests, now, s, c).ok
                    <=> arrived'[Key(s, c)] <= windowLimit
               /\ ~isAllowed(requests, now, s, c).ok => requests' = requests]_vars

\* the 101st message of a window has arrived and the counter stands at 100
C14_Witness ==
    \E key \in DOMAIN requests :
        /\ arrived[key] = windowLimit + 1
        /\ requests[key].count = windowLimit

\* the next message of s on c is the 101st or a later one of its window
OverLimit(s, c) == InWindow(Key(s, c)) /\ arrived[Key(s, c)] >= windowLimit

\* C15: a message the rate limiter rejects does not get the handler
\* executed: the on-wrapper drops it and changes nothing, the handle-wrapper
\* rejects with 'Rate limit exceeded'; and every message is put to the rate
\* limiter before the allowlist, so it is counted whatever its channel.
C15_RateLimitBeforeAllowlist ==
    \A s \in Senders, c \in IpcChannels, p \in IpcPayloads :
        /\ ipcMainOn(Boundary, s, c, p).boundary.requests
              = isAllowed(requests, now, s, c).requests
        /\ ipcMainHandle(Boundary, s, c, p).boundary.requests
              = isAllowed(requests, now, s, c).requests
        /\ OverLimit(s, c) =>
              /\ ~ipcMainOn(Boundary, s, c, p).ran
              /\ ipcMainOn(Boundary, s, c, p).reply = "dropped"
              /\ ipcMainOn(Boundary, s, c, p).boundary = Boundary
              /\ ipcMainOn(Boundary, s, c, p).payload = p
              /\ ~ipcMainHandle(Boundary, s, c, p).ran
              /\ ipcMainHandle(Boundary, s, c, p).reply = "Rate limit exceeded"

\* the unlisted channel is over its limit: its messages were counted, its
\* handler never ran
C15_Witness ==
    /\ OverLimit(1, "selected-source")
    /\ arrived[Key(1, "selected-source")] > windowLimit
    /\ "selected-source" \notin handled

\* the channels of the external-interface table
InterfaceChannels ==
    {"sources-available", "source-selected", "selection-cancelled",
     "trigger-screen-share", "screen-sharing-status-changed",
     "screen-sharing-source-selected", "get-screen-sharing-status",
     "get-screen-share-stream", "get-screen-share-screen"}

\* C16: every channel of the external-interface table is a member of
\* allowedChannels.
C16_InterfaceChannelsAllowed == InterfaceChannels \subseteq allowedChannels

\* C17: allowedChannels is the same set in every reachable state: no
\* message, request or passage of time adds a channel to it or removes one.
C17_AllowlistNeverChanges ==
    /\ [](allowedChannels = AllowedChannelSet)
    /\ [][allowedChannels' = allowedChannels]_vars

\* the validator has accepted a message and rejected another, time has
\* passed and both channels are counted by the rate limiter
C17_Witness ==
    /\ now > 0
    /\ handled = {"source-selected"}
    /\ DOMAIN requests = Keys
    /\ allowedChannels = AllowedChannelSet

\* C18: every picker window is sent sources-available at most once, and
\* once when it has emitted ready-to-show; never before that event or
\* before its flow's fetch has completed; the payload is the serializable
\* projection (thumbnail and appIcon as data-URL strings) of exactly the
\* catalog fetched for the window's flow.
C18_SourcesAvailableOncePerWindow ==
    \A w \in Windows :
        /\ Len(win[w].recv) <= 1
        /\ win[w].ready => Len(win[w].recv) = 1
        /\ win[w].recv # <<>> => win[w].ready /\ fetch[w] = "ok"
        /\ \A i \in 1..Len(win[w].recv) :
              win[w].recv[i] =
                 [fetch |-> w, ids |-> catalogOf[w],
                  thumbnail |-> "dataURL", appIcon |-> "dataURL"]

\* C19: in every state of the picker page the confirm button is enabled
\* only if a source is selected, and at most one source element is marked
\* selected; when the page has been constructed and after every tab switch
\* no source is selected and the confirm button is disabled.
C19_ConfirmEnabledOnlyWithSelection ==
    /\ [](/\ ~picker.shareBtnDisabled => picker.selectedSource # NoSource
          /\ Cardinality(picker.selectedEls) <= 1)
    /\ [][(\/ \E api \in BOOLEAN : DomContentLoaded(api)
           \/ \E tabName \in {"screens", "windows"} : TabClick(tabName))
          => /\ picker'.selectedSource = NoSource
             /\ picker'.shareBtnDisabled]_vars

\* after a cancel, a switch to the windows tab and a click on the window
\* source, that source is selected and the confirm button is enabled
C19_Witness ==
    /\ picker.activeTab = "windows"
    /\ picker.selectedSource = "window:1"
    /\ picker.selectedEls = {"window:1"}
    /\ ~picker.shareBtnDisabled
    /\ picker.sent = <<SelectionCancelledMessage>>

\* positions of the source-selected messages among those the page sent
SourceSelectedSent ==
    {i \in 1..Len(picker.sent) : picker.sent[i].channel = "source-selected"}

\* C20: in the lifetime of one picker page at most one source-selected
\* message is sent, however often the confirm button is activated; it
\* carries id, name, display_id and appIcon of the selected source and no
\* thumbnail; when it has been sent the confirm button is disabled.
C20_AtMostOneSourceSelected ==
    /\ [](/\ Cardinality(SourceSelectedSent) <= 1
          /\ \A i \in SourceSelectedSent :
                picker.sent[i].fields = SerializableFields)
    /\ [][Len(picker'.sent) > Len(picker.sent)
            /\ picker'.sent[Len(picker'.sent)].channel = "source-selected"
          => /\ picker'.sent[Len(picker'.sent)].id = picker.selectedSource
             /\ picker'.shareBtnDisabled]_vars

\* C21: once the picker page has sent its outcome (source-selected or
\* selection-cancelled) it sends no further message, whatever the user does
\* afterwards: the page sends at most one message in its lifetime.
C21_OneOutcomePerLifetime == Len(picker.sent) <= 1

\* C22: with two StreamSelector objects, a source-selected or
\* selection-cancelled message of the picker of one object never invokes
\* the other object's callback and leaves the other object's
\* currentCallback and catalog as they are; and while the sender's object
\* has a callback pending, the message invokes that callback.
C22_MessagesStayWithTheirInstance ==
    [][\A a \in Instances :
         (\/ \E id \in PayloadIds : SourceSelectedFrom(a, id)
          \/ SelectionCancelledFrom(a))
         => /\ \A b \in DOMAIN selectors.inst \ {a} :
                 /\ selectors'.inst[b].calls = selectors.inst[b].calls
                 /\ selectors'.inst[b].currentCallback
                       = selectors.inst[b].currentCallback
                 /\ selectors'.inst[b].sources = selectors.inst[b].sources
            /\ selectors.inst[a].currentCallback # NoCallback
                 => Len(selectors'.inst[a].calls[a]) = 1]_vars

\* the calls of one kind that reached ipcRenderer
Forwarded(b, kind) == {c \in BridgeChannels : <<kind, c>> \in b.forwarded}
Listening(b, kind) == {c \in BridgeChannels : <<kind, c>> \in b.listeners}

\* what C23 says of the methods that forward nothing by themselves: send
\* and invoke reach ipcRenderer with channels of sendChannels only, on and
\* once register listeners on channels of receiveChannels only, and a
\* namespace that is empty or not a string makes createIpcBridge throw and
\* expose nothing
BridgeGuardsChannels ==
    /\ [](/\ Forwarded(bridge, "send") \subseteq bridge.sendChannels
          /\ Forwarded(bridge, "invoke") \subseteq bridge.sendChannels
          /\ Listening(bridge, "on") \subseteq bridge.receiveChannels
          /\ Listening(bridge, "once") \subseteq bridge.receiveChannels
          /\ bridge.phase = "threw" => bridge.exposed = {} /\ bridge.methods = {})
    /\ [][/\ \A c \in BridgeChannels :
               /\ ApiSend(c) /\ c \in bridge.sendChannels
                    => <<"send", c>> \in bridge'.forwarded
               /\ ApiInvoke(c) /\ c \in bridge.sendChannels
                    => <<"invoke", c>> \in bridge'.forwarded
               /\ ApiOn(c) /\ c \in bridge.receiveChannels
                    => <<"on", c>> \in bridge'.listeners
               /\ ApiOnce(c) /\ c \in bridge.receiveChannels
                    => <<"once", c>> \in bridge'.listeners
          /\ \A ns \in Namespaces, s \in SUBSET ListedChannels,
                r \in SUBSET ListedChannels :
               CreateIpcBridge(ns, s, r)
                 => (bridge'.phase = "threw"
                        <=> (ns.type # "string" \/ ns.value = ""))]_vars

\* C23: send and invoke forward to ipcRenderer only channels of
\* sendChannels, invoke on any other channel returns a rejected promise and
\* send on any other channel forwards nothing; on and once register a
\* listener only on channels of receiveChannels; a namespace that is empty
\* or not a string makes createIpcBridge throw and expose nothing.
C23_BridgeAsClaimed ==
    /\ BridgeGuardsChannels
    /\ [][\A c \in BridgeChannels :
            ApiInvoke(c) /\ c \notin bridge.sendChannels
              => bridge'.result = "rejected" /\ bridge'.forwarded = bridge.forwarded]_vars

\* C23 as the code has it: invoke on a channel that is not in sendChannels
\* returns a rejected promise when sendChannels is not empty; a bridge
\* created with an empty sendChannels has no send and no invoke method, so
\* that the call throws a TypeError; in both cases nothing is forwarded.
C23_BridgeAmended ==
    /\ BridgeGuardsChannels
    /\ [][\A c \in BridgeChannels :
            ApiInvoke(c) /\ c \notin bridge.sendChannels
              => /\ bridge'.forwarded = bridge.forwarded
                 /\ bridge'.result = IF bridge.sendChannels # {}
                                     THEN "rejected" ELSE "TypeError"]_vars

\* a bridge with one send channel and one receive channel has forwarded an
\* invoke on the listed channel and rejected one on an unlisted channel
C23_Witness ==
    /\ bridge.phase = "exposed"
    /\ bridge.sendChannels = {"selected-source"}
    /\ bridge.receiveChannels = {"sources-list"}
    /\ bridge.forwarded = {<<"invoke", "selected-source">>}
    /\ bridge.listeners = {<<"on", "sources-list">>}
    /\ bridge.result = "rejected"

\* the entries of the catalog the active tab lets through
Filtered(p) ==
    {id \in p.sources : IF p.activeTab = "screens" THEN IsScreen(id) ELSE ~IsScreen(id)}

\* the source elements the page displays
Displayed(p) == IF p.gridShown THEN p.grid ELSE {}

Times == {k * TickMs : k \in 0..MaxTicks}

\* messages of key accepted at a Date.now() in the interval [from, to)
RECURSIVE AcceptedIn(_, _, _, _)
AcceptedIn(log, key, from, to) ==
    IF log = <<>> THEN 0
    ELSE (IF Head(log).key = key /\ from <= Head(log).at /\ Head(log).at < to
          THEN Head(log).n ELSE 0)
         + AcceptedIn(Tail(log), key, from, to)

\* C25: for every sender/channel pair and every interval as long as the
\* rate-limit window, isAllowed accepts at most 100 messages of the pair
\* in the interval; a pair's counter is reset only once its window has
\* elapsed, and the next message is then accepted; messages of one pair
\* never change the decision for another pair.
C25_AtMostHundredInAnyWindow ==
    /\ \A key \in Keys, from \in Times :
          AcceptedIn(accepted, key, from, from + windowMs) <= windowLimit
    /\ \A s \in Senders, c \in IpcChannels :
          LET key == Key(s, c)
              r == isAllowed(requests, now, s, c)
          IN /\ (key \in DOMAIN requests
                   /\ r.requests[key].resetTime # requests[key].resetTime)
                  => now > requests[key].resetTime
             /\ (key \in DOMAIN requests /\ now > requests[key].resetTime)
                  => r.ok /\ r.requests[key].count = 1
             /\ \A s2 \in Senders, c2 \in IpcChannels :
                  Key(s2, c2) # key
                    => isAllowed(r.requests, now, s2, c2).ok
                          = isAllowed(requests, now, s2, c2).ok

\* C27: get-screen-sharing-status returns true exactly when a flow has
\* resolved with a source and no screen-sharing-stopped message or clearing
\* of a stale source has been processed since, so it returns false before
\* any flow has resolved; and a get-screen-share-stream request returns
\* null exactly when the status is false once the request is answered.
C27_StatusTracksSharing ==
    /\ getScreenSharingStatus(host) <=> host.sharing
    /\ \A ids \in SUBSET SourceIds, rejected \in BOOLEAN :
          LET h == getScreenShareStream(host, ids, rejected)
          IN h.reply = "null" <=> ~getScreenSharingStatus(h)

\* the main process after the trigger callback has been invoked with each
\* of the values in turn
RECURSIVE HostAfter(_, _)
HostAfter(h, values) ==
    IF values = <<>> THEN h
    ELSE HostAfter(triggerCallback(h, Head(values)), Tail(values))

\* C26: every trigger-screen-share message (show() call k is made by the
\* k-th) leads to exactly one screen-sharing-source-selected notification:
\* never two, and one when nothing is left to run; it carries the source
\* and isActive: true when the flow resolved with a source, and isActive:
\* false, cancelled: true when it resolved with null; the global is set to
\* the source in the first case and left as it is in the second.
C26_OneNoticePerTrigger ==
    \A k \in Calls :
        LET h == HostAfter(host, calls[k])
        IN /\ Len(h.sent) <= 1
           /\ (Quiescent /\ k <= shows) => Len(h.sent) = 1
           /\ \A i \in 1..Len(calls[k]) :
                 LET v == calls[k][i]
                     h1 == triggerCallback(host, v)
                 IN IF v = NullValue
                    THEN /\ h.sent[i] = CancelledNotice
                         /\ h1.selectedScreenShareSource
                               = host.selectedScreenShareSource
                    ELSE /\ h.sent[i] = SelectedNotice(v)
                         /\ h1.selectedScreenShareSource = v

\* a message of some picker is handled
PickerMessage ==
    \E w \in Windows :
        \/ \E id \in PayloadIds : SourceSelected(w, id)
        \/ SelectionCancelled(w)

\* C28: a source-selected or selection-cancelled message resolves only the
\* flow of the picker that sent it: when the handling of a picker message
\* invokes a flow's callback, that flow's own picker is on screen and can
\* have sent the message; a message of the picker of an earlier flow never
\* resolves a later flow.
C28_MessagesResolveOwnFlow ==
    [][\A k \in Calls :
         (PickerMessage /\ calls'[k] # calls[k])
         => \/ \E id \in PayloadIds : SourceSelected(k, id)
            \/ SelectionCancelled(k)]_vars

\* C29: when the callbacks of all earlier show() calls have been invoked
\* and none is stored, the next show(cb) starts a fresh flow, whether or
\* not the 'closed' event of the previous picker window has been
\* delivered: cb is stored and a fetch is started.
C29_ShowAfterResolveStartsFlow ==
    [][(/\ shows' = shows + 1
        /\ shows >= 1
        /\ currentCallback = NoCallback
        /\ \A k \in 1..shows : calls[k] # <<>>)
       => /\ currentCallback' = shows'
          /\ fetch'[shows'] = "pending"]_vars

\* channels on which the main process registers handlers through the
\* wrapped ipcMain.on and ipcMain.handle
WrappedHandlerChannels ==
    {"new-notification", "proceed-camera-activation", "get-screen-sources-safe"}

\* channels the object exposed as 'electron' by the main preload script
\* passes to send, invoke and on
PreloadApiChannels ==
    {"zoom-change", "trigger-screen-share", "screen-sharing-stopped",
     "get-screen-sharing-status", "get-screen-share-stream",
     "get-screen-share-screen", "screen-sharing-source-selected",
     "screen-sharing-status-changed", "new-notification"}

\* C30: every channel the application itself uses across the boundary is
\* in allowedChannels, so that the validator drops none of its own
\* messages: a message on a handler's channel that the rate limiter lets
\* through gets the handler executed.
C30_OwnChannelsAllowed ==
    /\ WrappedHandlerChannels \cup PreloadApiChannels \subseteq allowedChannels
    /\ \A s \in Senders, c \in WrappedHandlerChannels, p \in IpcPayloads :
          isAllowed(requests, now, s, c).ok
            => /\ ipcMainOn(Boundary, s, c, p).ran
               /\ ipcMainHandle(Boundary, s, c, p).ran

====
